---- MODULE Spec2Model ----
(***************************************************************************)
(* A model of the data-access layer of SP/backend/services:                *)
(*   - RateLimiter.wait_if_needed            (stock_service.py 24-47)      *)
(*   - StockService's cache and its query operations (stock_service.py)    *)
(*   - the two cache sweepers (stock_service.py 139-162, cache_cleanup.py) *)
(*                                                                         *)
(* Time is a global integer clock.  Code that cannot block runs without a  *)
(* clock tick in between (a critical section of a lock is one step); time  *)
(* passes while a thread sleeps, waits for a lock or is inside an upstream *)
(* fetch.                                                                  *)
(***************************************************************************)
EXTENDS Integers, Sequences, FiniteSets, TLC

VARIABLES
    clock,       \* time.time(), in ticks
    \* ---- RateLimiter (stock_service.py 24-47)
    max_calls,   \* self.max_calls
    period,      \* self.period
    timestamps,  \* self.timestamps, the deque, oldest first
    rl_lock,     \* self.lock of the limiter: the caller that holds it, or NoCaller
    rl_pc,       \* per caller: where it is inside wait_if_needed
    rl_now,      \* per caller: the local variable now
    rl_wake,     \* per caller: the clock value at which its time.sleep may end
    rl_calls,    \* number of wait_if_needed calls begun so far
    rl_log,      \* history of the returned calls: [ret, ts, who]
    \* ---- StockService (stock_service.py 60-856)
    cache,       \* self.cache: tier -> (key -> [data, timestamp]); stored is the
                 \* clock value at which the entry was written (history only)
    wk,          \* per request thread: the operation it runs and where it is
    ops,         \* number of public operations begun so far
    \* ---- the threads of the application (stock_service.py, cache_cleanup.py, app.py)
    lock,        \* StockService.lock: the thread that holds it, or NoCaller
    th,          \* per request thread: where it is inside _get_cached_or_execute
                 \* or get_batch_stock_details, one step per lock operation
    running,     \* CacheCleanupService.running
    sw,          \* per sweeper thread: where it is in its loop
    \* ---- one request thread followed through its upstream calls
    ft,          \* where it is inside a public operation and its fetch function,
                 \* with the upstream attempts and backoff sleeps made so far
    \* ---- the random generators of the process (stock_service.py 419-447, 525-583)
    rng,         \* the generator behind the functions of Python's random module
    np_rng,      \* the generator behind numpy's np.random functions
    gen,         \* per request thread: where it is inside a _get_mock_* call
    made,        \* the synthetic structures returned so far
    \* ---- a CacheCleanupService followed through start() and stop() (cache_cleanup.py 10-43)
    cs           \* the calls made so far and the loop threads it has started

rlvars == <<max_calls, period, timestamps, rl_lock, rl_pc, rl_now, rl_wake, rl_calls, rl_log>>
svvars == <<cache, wk, ops>>
apvars == <<lock, th, running, sw>>
detvars == <<ft, rng, np_rng, gen, made, cs>>
vars == <<clock, rlvars, svvars, apvars, detvars>>

(***************************************************************************)
(* Bounds of the model.                                                    *)
(***************************************************************************)
MaxTime == 6        \* the clock stops here
MaxCallsArg == 2    \* max_calls ranges over 0..MaxCallsArg
MaxPeriodArg == 3   \* period ranges over 0..MaxPeriodArg
MaxJitter == 2      \* random.uniform(0.1, 1.0), in ticks: 1..MaxJitter
MaxWaits == 4       \* wait_if_needed calls begun in one behaviour
NumCallers == 2     \* concurrent callers of one limiter

Callers == 1..NumCallers
NoCaller == 0
Jitter == 1..MaxJitter

Max(a, b) == IF a >= b THEN a ELSE b

(***************************************************************************)
(* RateLimiter                                                             *)
(***************************************************************************)

\* while self.timestamps and now - self.timestamps[0] > self.period: popleft()
RECURSIVE Prune(_, _)
Prune(ts, now) ==
    IF ts # <<>> /\ now - ts[1] > period THEN Prune(Tail(ts), now) ELSE ts

\* the mutant: the window's length left out of the wait
SleepTimeNoPeriod(oldest, now, jitter) == oldest - now + jitter

\* sleep_time = self.timestamps[0] + self.period - now + random.uniform(0.1, 1.0)
SleepTime(oldest, now, jitter) == oldest + period - now + jitter

\* the mutant: the caller returns without releasing the limiter's lock
IssueKeepsLock(t, now) ==
    /\ timestamps' = Append(Prune(timestamps, rl_now'[t]), now)
    /\ rl_log' = Append(rl_log, [ret |-> clock, ts |-> now, who |-> t])
    /\ rl_pc' = [rl_pc EXCEPT ![t] = "idle"]
    /\ rl_lock' = t
    /\ UNCHANGED rl_wake

\* self.timestamps.append(now), and the caller returns
Issue(t, now) ==
    /\ timestamps' = Append(Prune(timestamps, rl_now'[t]), now)
    /\ rl_log' = Append(rl_log, [ret |-> clock, ts |-> now, who |-> t])
    /\ rl_pc' = [rl_pc EXCEPT ![t] = "idle"]
    /\ rl_lock' = NoCaller
    /\ UNCHANGED rl_wake

\* the mutant: the limit is reached only above max_calls timestamps
LockedAboveLimit(t) ==
    LET pruned == Prune(timestamps, rl_now'[t]) IN
    IF Len(pruned) > max_calls
    THEN \E j \in Jitter :
             /\ timestamps' = pruned
             /\ rl_wake' = [rl_wake EXCEPT ![t] =
                              clock + Max(0, SleepTime(pruned[1], rl_now'[t], j))]
             /\ rl_pc' = [rl_pc EXCEPT ![t] = "sleeping"]
             /\ rl_lock' = t
             /\ UNCHANGED rl_log
    ELSE Issue(t, rl_now'[t])

\* The body of "with self.lock:" up to the sleep or the return, run by caller t
\* with its local now already read.
Locked(t) ==
    LET pruned == Prune(timestamps, rl_now'[t]) IN
    IF Len(pruned) >= max_calls
    THEN IF pruned = <<>>
         THEN \* self.timestamps[0] on an empty deque: IndexError leaves the with block
              /\ timestamps' = pruned
              /\ rl_pc' = [rl_pc EXCEPT ![t] = "raised"]
              /\ rl_lock' = NoCaller
              /\ UNCHANGED <<rl_wake, rl_log>>
         ELSE \* time.sleep(max(0, sleep_time)) with the lock held
              \E j \in Jitter :
                  /\ timestamps' = pruned
                  /\ rl_wake' = [rl_wake EXCEPT ![t] =
                                   clock + Max(0, SleepTime(pruned[1], rl_now'[t], j))]
                  /\ rl_pc' = [rl_pc EXCEPT ![t] = "sleeping"]
                  /\ rl_lock' = t
                  /\ UNCHANGED rl_log
    ELSE Issue(t, rl_now'[t])

\* wait_if_needed, lines 34-47, by a caller that finds the lock free
WaitIfNeeded(t) ==
    /\ rl_pc[t] = "idle"
    /\ rl_lock = NoCaller
    /\ rl_calls' = rl_calls + 1
    /\ rl_now' = [rl_now EXCEPT ![t] = clock]
    /\ Locked(t)
    /\ UNCHANGED <<clock, max_calls, period, svvars, apvars, detvars>>

\* wait_if_needed called while fewer than MaxWaits calls have been begun
EnterFree(t) == rl_calls < MaxWaits /\ WaitIfNeeded(t)

\* wait_if_needed, line 34 then blocked at line 35: now is read before the lock
EnterBlocked(t) ==
    /\ rl_pc[t] = "idle"
    /\ rl_calls < MaxWaits
    /\ rl_lock # NoCaller
    /\ rl_calls' = rl_calls + 1
    /\ rl_now' = [rl_now EXCEPT ![t] = clock]
    /\ rl_pc' = [rl_pc EXCEPT ![t] = "blocked"]
    /\ UNCHANGED <<clock, max_calls, period, timestamps, rl_lock, rl_wake, rl_log, svvars, apvars, detvars>>

\* line 35 onwards, once the lock is free, with the now read at line 34
Acquire(t) ==
    /\ rl_pc[t] = "blocked"
    /\ rl_lock = NoCaller
    /\ rl_now' = rl_now
    /\ Locked(t)
    /\ UNCHANGED <<clock, max_calls, period, rl_calls, svvars, apvars, detvars>>

\* lines 43-47: the sleep ends, now = time.time(), append, leave the with block
Wake(t) ==
    /\ rl_pc[t] = "sleeping"
    /\ clock >= rl_wake[t]
    /\ rl_now' = [rl_now EXCEPT ![t] = clock]
    /\ timestamps' = Append(timestamps, clock)
    /\ rl_log' = Append(rl_log, [ret |-> clock, ts |-> clock, who |-> t])
    /\ rl_pc' = [rl_pc EXCEPT ![t] = "idle"]
    /\ rl_lock' = NoCaller
    /\ UNCHANGED <<clock, max_calls, period, rl_wake, rl_calls, svvars, apvars, detvars>>

\* the caller sees the IndexError and may call again
Recover(t) ==
    /\ rl_pc[t] = "raised"
    /\ rl_pc' = [rl_pc EXCEPT ![t] = "idle"]
    /\ UNCHANGED <<clock, max_calls, period, timestamps, rl_lock, rl_now, rl_wake,
                   rl_calls, rl_log, svvars, apvars, detvars>>

TickLimiter ==
    /\ clock < MaxTime
    /\ clock' = clock + 1
    /\ UNCHANGED <<rlvars, svvars, apvars, detvars>>

\* Time goes on for as long as a caller is inside time.sleep.
TickAsleep ==
    /\ clock >= MaxTime
    /\ \E t \in Callers : rl_pc[t] = "sleeping" /\ clock < rl_wake[t]
    /\ clock' = clock + 1
    /\ UNCHANGED <<rlvars, svvars, apvars, detvars>>

\* RateLimiter.__init__(max_calls, period), lines 26-30
InitLimiter ==
    /\ clock = 0
    /\ max_calls \in 0..MaxCallsArg
    /\ period \in 0..MaxPeriodArg
    /\ timestamps = <<>>
    /\ rl_lock = NoCaller
    /\ rl_pc = [t \in Callers |-> "idle"]
    /\ rl_now = [t \in Callers |-> 0]
    /\ rl_wake = [t \in Callers |-> 0]
    /\ rl_calls = 0
    /\ rl_log = <<>>


(***************************************************************************)
(* StockService: the cache, the query operations, the sweepers.            *)
(* In this part one clock tick is 30 seconds.                              *)
(***************************************************************************)
REALTIME_TTL == 1       \* 30 seconds
HISTORICAL_TTL == 120   \* 3600 seconds
SEARCH_TTL == 120       \* 3600 seconds
MARKET_TTL == 2         \* 60 seconds
CLEANUP_BUFFER == 2     \* the "+ 60" of CacheCleanupService._perform_cleanup
YAHOO_MAX_CALLS == 25   \* YAHOO_RATE_LIMITER = RateLimiter(max_calls=25, period=60)
YAHOO_PERIOD == 2       \* 60 seconds

MaxTicks == 2       \* single clock ticks in one behaviour of the service
MaxHours == 1       \* one-hour advances of the clock in one behaviour
MaxOps == 2         \* public operations begun in one behaviour
NumWorkers == 2     \* concurrent request threads
MaxBatch == 2       \* length of the list passed to get_batch_stock_details
MaxLimit == 1       \* get_most_watched's limit argument ranges over 0..MaxLimit

Workers == 1..NumWorkers
Serving == {1}      \* the request threads that serve requests under Spec
Tiers == {"realtime", "historical", "search", "market"}
Symbols == {"AAPL", "aapl", "MSFT"}
Timeframes == {"1m"}
Queries == {"", "AAPL"}
Limits == 0..MaxLimit
MoversLimits == {5}
SearchLimits == {10}
Upstream == {"ok", "fail"}
BatchLists == UNION {[1..n -> Symbols] : n \in 0..MaxBatch}

\* str.upper()
Upper(s) == IF s = "aapl" THEN "AAPL" ELSE s

Min(a, b) == IF a <= b THEN a ELSE b

\* popular_symbols of get_most_watched.fetch_data
PopularSymbols == <<"AAPL", "MSFT", "GOOGL", "AMZN", "TSLA">>

\* getattr(self, f"{cache_type.upper()}_TTL")
TTL(tier) ==
    CASE tier = "realtime" -> REALTIME_TTL
      [] tier = "historical" -> HISTORICAL_TTL
      [] tier = "search" -> SEARCH_TTL
      [] tier = "market" -> MARKET_TTL

\* The cache keys: the f-strings, as records of their parts.
NoKey == [kind |-> "none", sym |-> "", tf |-> "", limit |-> 0]
DetailsKey(sym) == [kind |-> "details", sym |-> sym, tf |-> "", limit |-> 0]
HistoricalKey(sym, tf) == [kind |-> "historical", sym |-> sym, tf |-> tf, limit |-> 0]
SummaryKey == [kind |-> "market_summary", sym |-> "", tf |-> "", limit |-> 0]
MoversKey(limit) == [kind |-> "movers", sym |-> "", tf |-> "", limit |-> limit]
WatchedKey(limit) == [kind |-> "watched", sym |-> "", tf |-> "", limit |-> limit]
SearchKey(query, limit) == [kind |-> "search", sym |-> query, tf |-> "", limit |-> limit]

\* The returned structures, by the fields the claims read: which operation
\* built it, for which symbol, its "dataSource" field (NoField: the structure
\* has no such field), the clock value when it was built, and the number of
\* items it lists.
NoField == "<no dataSource field>"
Payload(kind, sym, src, n) ==
    [kind |-> kind, symbol |-> sym, dataSource |-> src, timestamp |-> clock, n |-> n]
NoPayload == [kind |-> "none", symbol |-> "", dataSource |-> NoField, timestamp |-> 0, n |-> 0]

\* _get_mock_stock_details, _get_mock_historical_data, _get_mock_market_summary,
\* _get_mock_market_movers, _get_mock_most_watched
Mock(fop, sym) ==
    Payload(fop, sym, "mock",
            CASE fop = "summary" -> 3 [] fop = "movers" -> 5 [] fop = "watched" -> 5
              [] OTHER -> 1)

\* What fetch_data of operation fop does when its upstream calls behave as up:
\* it returns a structure or raises.
FetchResult(fop, key, up) ==
    CASE fop \in {"details", "historical"} ->
            \* ValueError / the upstream's exception leaves fetch_data
            [raised |-> up = "fail", val |-> Payload(fop, key.sym, "yfinance", 1)]
      [] fop = "summary" ->
            \* every index and sector failure is caught inside the loop
            [raised |-> FALSE,
             val |-> Payload(fop, "", "yfinance", IF up = "ok" THEN 3 ELSE 0)]
      [] fop = "movers" ->
            [raised |-> FALSE,
             val |-> Payload(fop, "", "yfinance", IF up = "ok" THEN key.limit ELSE 0)]
      [] fop = "search" ->
            \* a list of {symbol, name}: the direct match, or the popular stocks
            \* filtered by the query, cut to limit
            [raised |-> FALSE,
             val |-> Payload(fop, key.sym, NoField, Min(1, key.limit))]

\* the mutant: no operation catches the failure of _get_cached_or_execute
CatchesNothing(fop) == FALSE

\* try: return self._get_cached_or_execute(...) except Exception: return mock.
\* search_stocks has no such handler.
Catches(fop) == fop # "search"

\* if cache_key in self.cache[cache_type] and now - ...['timestamp'] < ttl
Fresh(tier, key, now, ttl) ==
    /\ key \in DOMAIN cache[tier]
    /\ now - cache[tier][key].timestamp < ttl

\* the mutant: one dictionary shared by all the tiers
PutEveryTier(tier, key, data, now) ==
    [T \in Tiers |->
        [k \in DOMAIN cache[T] \cup {key} |->
            IF k = key THEN [data |-> data, timestamp |-> now, stored |-> clock]
            ELSE cache[T][k]]]

\* self.cache[cache_type][cache_key] = {'data': result, 'timestamp': now}
Put(tier, key, data, now) ==
    [cache EXCEPT ![tier] =
        [k \in DOMAIN @ \cup {key} |->
            IF k = key THEN [data |-> data, timestamp |-> now, stored |-> clock]
            ELSE @[k]]]

\* the mutant: the failure handler ignores the entry
HasFallbackNever(tier, key) == FALSE

\* the mutant: the failure handler serves the entry only while it is fresh
HasFallbackFreshOnly(tier, key) ==
    key \in DOMAIN cache[tier] /\ clock - cache[tier][key].timestamp < TTL(tier)

\* if cache_key in self.cache[cache_type]  (the failure handler, line 237)
HasFallback(tier, key) == key \in DOMAIN cache[tier]

\* the mutant: the failure handler stores the mock result under the key
CacheAfterFailureStoresMock(tier, key, fop, now) ==
    IF key \in DOMAIN cache[tier] THEN cache ELSE Put(tier, key, Mock(fop, key.sym), now)

\* The except branch, lines 232-242, writes nothing to self.cache.
CacheAfterFailure(tier, key, fop, now) == cache

IdleWorker ==
    [pc |-> "idle", op |-> "none", fop |-> "none", req |-> <<>>, limit |-> 0,
     tier |-> "realtime", key |-> NoKey, now |-> 0, okey |-> NoKey, onow |-> 0,
     todo |-> <<>>, cur |-> "", acc |-> <<>>, ret |-> NoPayload,
     gce |-> "none", up |-> "none", had |-> FALSE, outcome |-> "none"]

\* One resolved value: the symbol as requested, the value, how
\* _get_cached_or_execute ended (hit, fetched, expired, raise), what the
\* upstream did and whether an entry existed when the failure handler looked.
Delivered(sym, val, gce, up, had) ==
    [sym |-> sym, val |-> val, gce |-> gce, up |-> up, had |-> had]

\* the mutant: a failed symbol ends the batch loop
DeliverAbortOnFailure(w, val, gce, up, had) ==
    IF wk[w].op \in {"batch", "watched"} /\ wk[w].fop = "details"
    THEN wk' = [wk EXCEPT ![w].acc = Append(@, Delivered(wk[w].cur, val, gce, up, had)),
                          ![w].todo = IF up = "fail" THEN <<>> ELSE Tail(@),
                          ![w].gce = gce, ![w].up = up, ![w].had = had,
                          ![w].pc = "loop"]
    ELSE wk' = [wk EXCEPT ![w].ret = val,
                          ![w].gce = gce, ![w].up = up, ![w].had = had,
                          ![w].outcome = "returned",
                          ![w].pc = "done"]

\* The value of the current call goes to its caller: results[symbol] = ... in
\* get_batch_stock_details, watched.append(stock) in get_most_watched, or the
\* operation's return value.
Deliver(w, val, gce, up, had) ==
    IF wk[w].op \in {"batch", "watched"} /\ wk[w].fop = "details"
    THEN wk' = [wk EXCEPT ![w].acc = Append(@, Delivered(wk[w].cur, val, gce, up, had)),
                          ![w].todo = Tail(@),
                          ![w].gce = gce, ![w].up = up, ![w].had = had,
                          ![w].pc = "loop"]
    ELSE wk' = [wk EXCEPT ![w].ret = val,
                          ![w].gce = gce, ![w].up = up, ![w].had = had,
                          ![w].outcome = "returned",
                          ![w].pc = "done"]

\* A public operation is called; its @rate_limit wrapper waits for a permit
\* before the body runs.
Begin(w, op, tier, key, limit) ==
    /\ wk[w].pc = "idle"
    /\ ops < MaxOps
    /\ ops' = ops + 1
    /\ wk' = [wk EXCEPT ![w] = [IdleWorker EXCEPT !.pc = "gce", !.op = op, !.fop = op,
                                                  !.tier = tier, !.key = key,
                                                  !.limit = limit]]
    /\ UNCHANGED <<clock, cache, rlvars, apvars, detvars>>

\* get_stock_details(symbol), lines 324-329
CallDetails(w, sym) == Begin(w, "details", "realtime", DetailsKey(Upper(sym)), 0)

\* get_historical_data(symbol, timeframe), lines 449-454
CallHistorical(w, sym, tf) ==
    Begin(w, "historical", "historical", HistoricalKey(Upper(sym), tf), 0)

\* get_market_summary(), lines 585-589
CallSummary(w) == Begin(w, "summary", "market", SummaryKey, 0)

\* get_market_movers(limit), lines 715-721
CallMovers(w, limit) == Begin(w, "movers", "market", MoversKey(Min(limit, 5)), Min(limit, 5))

\* get_most_watched(limit), lines 805-810
CallWatched(w, limit) ==
    Begin(w, "watched", "market", WatchedKey(Min(limit, 5)), Min(limit, 5))

\* search_stocks(query, limit), lines 244-251
CallSearch(w, query, limit) ==
    IF query = ""
    THEN \* return self.popular_stocks[:limit]
         /\ wk[w].pc = "idle"
         /\ ops < MaxOps
         /\ ops' = ops + 1
         /\ wk' = [wk EXCEPT ![w] = [IdleWorker EXCEPT
                        !.pc = "done", !.op = "search", !.fop = "search",
                        !.limit = limit, !.outcome = "returned",
                        !.ret = Payload("search", "", NoField, Min(limit, 10))]]
         /\ UNCHANGED <<clock, cache, rlvars, apvars, detvars>>
    ELSE Begin(w, "search", "search", SearchKey(query, limit), limit)

\* get_batch_stock_details(symbols), lines 283-302: the partition under the lock
CallBatch(w, syms) ==
    LET hit(s) == Fresh("realtime", DetailsKey(s), clock, REALTIME_TTL)
        hits == SelectSeq(syms, hit)
        misses == SelectSeq(syms, LAMBDA s : ~hit(s))
    IN
    /\ wk[w].pc = "idle"
    /\ ops < MaxOps
    /\ ops' = ops + 1
    /\ wk' = [wk EXCEPT ![w] = [IdleWorker EXCEPT
                   !.op = "batch", !.fop = "batch", !.req = syms,
                   !.acc = [i \in 1..Len(hits) |->
                               Delivered(hits[i], cache["realtime"][DetailsKey(hits[i])].data,
                                         "hit", "none", TRUE)],
                   !.todo = misses,
                   !.outcome = IF misses = <<>> THEN "returned" ELSE "none",
                   !.pc = IF misses = <<>> THEN "done" ELSE "loop"]]
    /\ UNCHANGED <<clock, cache, rlvars, apvars, detvars>>

\* _get_cached_or_execute, lines 209-218: now is read, the cache is checked
\* under the lock; on a miss the fetch function is entered.
GceBegin(w) ==
    /\ wk[w].pc = "gce"
    /\ IF Fresh(wk[w].tier, wk[w].key, clock, TTL(wk[w].tier))
       THEN Deliver(w, cache[wk[w].tier][wk[w].key].data, "hit", "none", TRUE)
       ELSE IF wk[w].fop = "watched"
            THEN \* get_most_watched.fetch_data: popular_symbols[:limit]
                 wk' = [wk EXCEPT ![w].pc = "loop",
                                  ![w].gce = "none",
                                  ![w].okey = wk[w].key,
                                  ![w].onow = clock,
                                  ![w].todo = SubSeq(PopularSymbols, 1, wk[w].limit)]
            ELSE wk' = [wk EXCEPT ![w].pc = "fetch", ![w].now = clock,
                                  ![w].gce = "none", ![w].up = "none",
                                  ![w].had = FALSE]
    /\ UNCHANGED <<clock, cache, ops, rlvars, apvars, detvars>>

\* The loops of get_batch_stock_details (lines 305-313) and of
\* get_most_watched.fetch_data (lines 818-821): the next symbol is passed to
\* get_stock_details.
LoopNext(w) ==
    /\ wk[w].pc = "loop"
    /\ wk[w].todo # <<>>
    /\ wk' = [wk EXCEPT ![w].cur = Head(wk[w].todo),
                        ![w].fop = "details",
                        ![w].tier = "realtime",
                        ![w].key = DetailsKey(Upper(Head(wk[w].todo))),
                        ![w].pc = "gce"]
    /\ UNCHANGED <<clock, cache, ops, rlvars, apvars, detvars>>

\* The loop is over.  get_batch_stock_details returns results (line 322);
\* get_most_watched.fetch_data returns its structure (lines 830-835), which
\* _get_cached_or_execute stores (lines 225-231).
LoopEnd(w) ==
    /\ wk[w].pc = "loop"
    /\ wk[w].todo = <<>>
    /\ IF wk[w].op = "batch"
       THEN /\ wk' = [wk EXCEPT ![w].pc = "done", ![w].outcome = "returned"]
            /\ UNCHANGED cache
       ELSE LET val == Payload("watched", "",
                               IF wk[w].acc # <<>> THEN wk[w].acc[1].val.dataSource
                                                   ELSE "unknown",
                               Len(wk[w].acc))
            IN /\ cache' = Put("market", wk[w].okey, val, wk[w].onow)
               /\ wk' = [wk EXCEPT ![w].pc = "done", ![w].outcome = "returned",
                                   ![w].fop = "watched", ![w].tier = "market",
                                   ![w].key = wk[w].okey,
                                   ![w].ret = val, ![w].gce = "fetched",
                                   ![w].up = "none", ![w].had = FALSE]
    /\ UNCHANGED <<clock, ops, rlvars, apvars, detvars>>

\* _get_cached_or_execute, lines 221-242, and the handler of the operation
\* around it: the fetch function returns or raises.
FetchDone(w, up) ==
    LET tier == wk[w].tier
        key == wk[w].key
        r == FetchResult(wk[w].fop, key, up)
        had == key \in DOMAIN cache[tier]
    IN
    /\ wk[w].pc = "fetch"
    /\ IF ~r.raised
       THEN /\ cache' = Put(tier, key, r.val, wk[w].now)
            /\ Deliver(w, r.val, "fetched", up, had)
       ELSE /\ cache' = CacheAfterFailure(tier, key, wk[w].fop, wk[w].now)
            /\ IF HasFallback(tier, key)
               THEN Deliver(w, cache[tier][key].data, "expired", up, had)
               ELSE IF Catches(wk[w].fop)
                    THEN Deliver(w, Mock(wk[w].fop, key.sym), "raise", up, had)
                    ELSE wk' = [wk EXCEPT ![w].pc = "done", ![w].outcome = "raised",
                                          ![w].gce = "raise", ![w].up = up,
                                          ![w].had = had]
    /\ UNCHANGED <<clock, ops, rlvars, apvars, detvars>>

\* the caller has its result; the thread serves the next request
Return(w) ==
    /\ wk[w].pc = "done"
    /\ wk' = [wk EXCEPT ![w] = IdleWorker]
    /\ UNCHANGED <<clock, cache, ops, rlvars, apvars, detvars>>

\* the keys of a tier whose entry is older than age at time now
OlderThanAt(tier, now, age) ==
    {k \in DOMAIN cache[tier] : now - cache[tier][k].timestamp > age}

\* the keys of a tier whose entry is older than age
OlderThan(tier, age) == OlderThanAt(tier, clock, age)

Without(tier, keys) == [k \in DOMAIN cache[tier] \ keys |-> cache[tier][k]]

\* self.cache after the with block of _cleanup_cache (lines 144-158) run with
\* the now of line 141
AfterCleanupCache(now) ==
    [tier \in Tiers |-> Without(tier, OlderThanAt(tier, now, TTL(tier)))]

\* self.stock_service.cache after the with block of _perform_cleanup
\* (cache_cleanup.py 50-69) run with the now of line 47
AfterPerformCleanup(now) ==
    [tier \in Tiers |->
        IF tier \in {"realtime", "historical"}
        THEN Without(tier, OlderThanAt(tier, now, TTL(tier) + CLEANUP_BUFFER))
        ELSE cache[tier]]

\* StockService._cleanup_cache, lines 139-158
CleanupCache ==
    /\ cache' = AfterCleanupCache(clock)
    /\ UNCHANGED <<clock, wk, ops, rlvars, apvars, detvars>>

\* CacheCleanupService._perform_cleanup, cache_cleanup.py 45-69
PerformCleanup ==
    /\ cache' = AfterPerformCleanup(clock)
    /\ UNCHANGED <<clock, wk, ops, rlvars, apvars, detvars>>

\* Time passes by one tick.
Tick ==
    /\ clock % HISTORICAL_TTL < MaxTicks
    /\ clock' = clock + 1
    /\ UNCHANGED <<cache, wk, ops, rlvars, apvars, detvars>>

\* Time passes by an hour.
TickHour ==
    /\ clock \div HISTORICAL_TTL < MaxHours
    /\ clock' = clock + HISTORICAL_TTL
    /\ UNCHANGED <<cache, wk, ops, rlvars, apvars, detvars>>

(***************************************************************************)
(* The threads of the application, one step per lock operation: request    *)
(* threads inside _get_cached_or_execute and get_batch_stock_details, the  *)
(* thread of StockService._cleanup_task, the thread of                     *)
(* CacheCleanupService._cleanup_loop, and app.py's teardown handler.       *)
(***************************************************************************)
TaskThread == NumCallers + 1      \* runs StockService._cleanup_task
ServiceThread == NumCallers + 2   \* runs CacheCleanupService._cleanup_loop
Sweepers == {TaskThread, ServiceThread}
ThreadTiers == {"realtime", "market"}
ThreadKeys == {DetailsKey("AAPL")}
ThreadSymbols == {"AAPL"}

IdleThread ==
    [pc |-> "idle", tier |-> "realtime", key |-> NoKey, now |-> 0,
     after |-> "none", permits |-> 0, batch |-> FALSE,
     ret |-> NoPayload, gce |-> "none", outcome |-> "none"]

\* the wait_if_needed calls thread t has returned from
Permits(t) == Cardinality({i \in 1..Len(rl_log) : rl_log[i].who = t})

\* the mutant: the cache is accessed without taking self.lock
LockIgnored(t) == TRUE

\* "with self.lock:" is entered by thread t once the lock is free
LockFree(t) == lock = NoCaller

\* the mutant: fetch_func is called inside the with block of the cache check
LockDuringFetchHeld(t) == t

\* The with block of lines 215-218 is left before fetch_func is called.
LockDuringFetch(t) == NoCaller

\* _get_cached_or_execute(cache_type, cache_key, fetch_func), lines 209-212
GceCall(t, tier, key) ==
    /\ th[t].pc = "idle"
    /\ ops < MaxOps
    /\ ops' = ops + 1
    /\ th' = [th EXCEPT ![t] = [IdleThread EXCEPT !.pc = "at215", !.tier = tier,
                                                  !.key = key, !.now = clock]]
    /\ UNCHANGED <<clock, cache, wk, rlvars, lock, running, sw, detvars>>

\* line 215: with self.lock
GceLock(t) ==
    /\ th[t].pc = "at215"
    /\ LockFree(t)
    /\ lock' = t
    /\ th' = [th EXCEPT ![t].pc = "in215"]
    /\ UNCHANGED <<clock, cache, wk, ops, rlvars, running, sw, detvars>>

\* lines 216-218: the freshness test with the now of line 212; a hit returns
\* from inside the with block; on a miss fetch_func is entered, and its first
\* act is YAHOO_RATE_LIMITER.wait_if_needed()
GceCheck(t) ==
    /\ th[t].pc = "in215"
    /\ IF Fresh(th[t].tier, th[t].key, th[t].now, TTL(th[t].tier))
       THEN /\ th' = [th EXCEPT ![t].pc = "done", ![t].gce = "hit",
                                ![t].outcome = "returned",
                                ![t].ret = cache[th[t].tier][th[t].key].data]
            /\ lock' = NoCaller
       ELSE /\ th' = [th EXCEPT ![t].pc = "permit", ![t].after = "upstream",
                                ![t].permits = Permits(t)]
            /\ lock' = LockDuringFetch(t)
    /\ UNCHANGED <<clock, cache, wk, ops, rlvars, running, sw, detvars>>

\* Thread t is inside a wait_if_needed call or about to make one.
WantsPermit(t) == th[t].pc = "permit" /\ Permits(t) = th[t].permits

\* The @rate_limit wrapper of get_stock_details has its permit (lines 55-57):
\* the body runs up to line 212.
BodyStart(t) ==
    /\ th[t].pc = "permit"
    /\ th[t].after = "gce"
    /\ Permits(t) > th[t].permits
    /\ th' = [th EXCEPT ![t].pc = "at215", ![t].now = clock]
    /\ UNCHANGED <<clock, cache, wk, ops, rlvars, lock, running, sw, detvars>>

\* fetch_func has its permit; the upstream call returns or fails (line 222)
UpstreamDone(t, up) ==
    LET r == FetchResult("details", th[t].key, up) IN
    /\ th[t].pc = "permit"
    /\ th[t].after = "upstream"
    /\ Permits(t) > th[t].permits
    /\ th' = [th EXCEPT ![t].pc = IF r.raised THEN "at236" ELSE "at225",
                        ![t].ret = IF r.raised THEN NoPayload ELSE r.val]
    /\ UNCHANGED <<clock, cache, wk, ops, rlvars, lock, running, sw, detvars>>

\* line 225: with self.lock
StoreLock(t) ==
    /\ th[t].pc = "at225"
    /\ LockFree(t)
    /\ lock' = t
    /\ th' = [th EXCEPT ![t].pc = "in225"]
    /\ UNCHANGED <<clock, cache, wk, ops, rlvars, running, sw, detvars>>

\* lines 226-231: the entry is written with the now of line 212
Store(t) ==
    /\ th[t].pc = "in225"
    /\ cache' = Put(th[t].tier, th[t].key, th[t].ret, th[t].now)
    /\ lock' = NoCaller
    /\ th' = [th EXCEPT ![t].pc = "done", ![t].gce = "fetched",
                        ![t].outcome = "returned"]
    /\ UNCHANGED <<clock, wk, ops, rlvars, running, sw, detvars>>

\* line 236: with self.lock
FallbackLock(t) ==
    /\ th[t].pc = "at236"
    /\ LockFree(t)
    /\ lock' = t
    /\ th' = [th EXCEPT ![t].pc = "in236"]
    /\ UNCHANGED <<clock, cache, wk, ops, rlvars, running, sw, detvars>>

\* lines 237-242: the entry, whatever its age, or the exception again; inside
\* get_stock_details the exception is caught and the mock returned (413-417)
Fallback(t) ==
    /\ th[t].pc = "in236"
    /\ lock' = NoCaller
    /\ IF HasFallback(th[t].tier, th[t].key)
       THEN th' = [th EXCEPT ![t].pc = "done", ![t].gce = "expired",
                             ![t].outcome = "returned",
                             ![t].ret = cache[th[t].tier][th[t].key].data]
       ELSE IF th[t].batch
            THEN th' = [th EXCEPT ![t].pc = "done", ![t].gce = "raise",
                                  ![t].outcome = "returned",
                                  ![t].ret = Mock("details", th[t].key.sym)]
            ELSE th' = [th EXCEPT ![t].pc = "done", ![t].gce = "raise",
                                  ![t].outcome = "raised"]
    /\ UNCHANGED <<clock, cache, wk, ops, rlvars, running, sw, detvars>>

\* get_batch_stock_details([symbol]), lines 283-289
BatchCall(t, sym) ==
    /\ th[t].pc = "idle"
    /\ ops < MaxOps
    /\ ops' = ops + 1
    /\ th' = [th EXCEPT ![t] = [IdleThread EXCEPT !.pc = "at292", !.batch = TRUE,
                                                  !.key = DetailsKey(sym)]]
    /\ UNCHANGED <<clock, cache, wk, rlvars, lock, running, sw, detvars>>

\* line 292: with self.lock
BatchLock(t) ==
    /\ th[t].pc = "at292"
    /\ LockFree(t)
    /\ lock' = t
    /\ th' = [th EXCEPT ![t].pc = "in292"]
    /\ UNCHANGED <<clock, cache, wk, ops, rlvars, running, sw, detvars>>

\* lines 293-300: now is read inside the with block; a fresh entry resolves
\* the symbol, anything else goes to the loop
BatchPartition(t) ==
    /\ th[t].pc = "in292"
    /\ lock' = NoCaller
    /\ IF Fresh("realtime", th[t].key, clock, REALTIME_TTL)
       THEN th' = [th EXCEPT ![t].pc = "done", ![t].gce = "hit",
                             ![t].outcome = "returned", ![t].now = clock,
                             ![t].ret = cache["realtime"][th[t].key].data]
       ELSE th' = [th EXCEPT ![t].pc = "pace", ![t].now = clock]
    /\ UNCHANGED <<clock, cache, wk, ops, rlvars, running, sw, detvars>>

\* lines 311-313: the pacing sleep ends and get_stock_details(symbol) is
\* called; its @rate_limit wrapper asks the limiter first
Pace(t) ==
    /\ th[t].pc = "pace"
    /\ th' = [th EXCEPT ![t].pc = "permit", ![t].after = "gce",
                        ![t].permits = Permits(t),
                        ![t].key = DetailsKey(Upper(th[t].key.sym))]
    /\ UNCHANGED <<clock, cache, wk, ops, rlvars, lock, running, sw, detvars>>

\* The request is over: Flask pops the application context and runs
\* shutdown_cleanup (app.py 56-58), which calls cleanup_service.stop()
\* (cache_cleanup.py 27-32).
Teardown(t) ==
    /\ th[t].pc = "done"
    /\ th' = [th EXCEPT ![t] = IdleThread]
    /\ running' = FALSE
    /\ UNCHANGED <<clock, cache, wk, ops, rlvars, lock, sw, detvars>>

\* _cleanup_task, lines 134-141: the sleep ends, _cleanup_cache reads now
TaskWake ==
    /\ sw[TaskThread].pc = "sleep"
    /\ sw' = [sw EXCEPT ![TaskThread] = [pc |-> "at144", now |-> clock]]
    /\ UNCHANGED <<clock, cache, wk, ops, rlvars, lock, th, running, detvars>>

\* line 144: with self.lock
TaskLock ==
    /\ sw[TaskThread].pc = "at144"
    /\ LockFree(TaskThread)
    /\ lock' = TaskThread
    /\ sw' = [sw EXCEPT ![TaskThread].pc = "in144"]
    /\ UNCHANGED <<clock, cache, wk, ops, rlvars, th, running, detvars>>

\* lines 145-158, then back to the sleep of line 134
TaskSweep ==
    /\ sw[TaskThread].pc = "in144"
    /\ cache' = AfterCleanupCache(sw[TaskThread].now)
    /\ lock' = NoCaller
    /\ sw' = [sw EXCEPT ![TaskThread] = [pc |-> "sleep", now |-> 0]]
    /\ UNCHANGED <<clock, wk, ops, rlvars, th, running, detvars>>

\* _cleanup_loop, cache_cleanup.py 36-47: while self.running, and the now of
\* _perform_cleanup
ServiceLoop ==
    /\ sw[ServiceThread].pc = "loop"
    /\ sw' = [sw EXCEPT ![ServiceThread] =
                 IF running THEN [pc |-> "at50", now |-> clock]
                 ELSE [pc |-> "exited", now |-> 0]]
    /\ UNCHANGED <<clock, cache, wk, ops, rlvars, lock, th, running, detvars>>

\* cache_cleanup.py 50: with self.stock_service.lock
ServiceLock ==
    /\ sw[ServiceThread].pc = "at50"
    /\ LockFree(ServiceThread)
    /\ lock' = ServiceThread
    /\ sw' = [sw EXCEPT ![ServiceThread].pc = "in50"]
    /\ UNCHANGED <<clock, cache, wk, ops, rlvars, th, running, detvars>>

\* cache_cleanup.py 51-69, then the sleep of line 43 and the loop test again
ServiceSweep ==
    /\ sw[ServiceThread].pc = "in50"
    /\ cache' = AfterPerformCleanup(sw[ServiceThread].now)
    /\ lock' = NoCaller
    /\ sw' = [sw EXCEPT ![ServiceThread] = [pc |-> "loop", now |-> 0]]
    /\ UNCHANGED <<clock, wk, ops, rlvars, th, running, detvars>>

(***************************************************************************)
(* One request thread followed through a public operation, one step per    *)
(* upstream call: the @rate_limit wrapper, the cache check, the fetch      *)
(* function with _safe_fetch_ticker and _safe_get_info, the store or the   *)
(* failure handler.  get_most_watched and get_batch_stock_details reach    *)
(* the upstream only through get_stock_details.  An access to ticker.info, *)
(* ticker.history or ticker.recommendations is an upstream attempt.        *)
(***************************************************************************)
MaxIndices == 2     \* the first MaxIndices of the 3 indices of get_market_summary
MaxSectors == 1     \* the first MaxSectors of its 5 sector funds
MaxMovers == 1      \* the first MaxMovers of the 10 stocks of get_market_movers

FT == 1             \* the thread, as a caller of the limiter

\* What one upstream call does: it returns data, raises (an error or a
\* timeout), returns an empty payload, or reports that the symbol is unknown.
UpOutcomes == {"ok", "error", "empty", "notfound"}

\* The upstream call returns to the code without an exception.
NoException(out) == out \in {"ok", "empty"}

\* for attempt in range(3)
InfoAttempts == 3

\* The public operations as called here: operation, cache tier and cache key.
FetchCalls ==
    {[op |-> "details", tier |-> "realtime", key |-> DetailsKey("AAPL")],
     [op |-> "historical", tier |-> "historical", key |-> HistoricalKey("AAPL", "1m")],
     [op |-> "summary", tier |-> "market", key |-> SummaryKey],
     [op |-> "movers", tier |-> "market", key |-> MoversKey(5)],
     [op |-> "search", tier |-> "search", key |-> SearchKey("AAPL", 10)]}

\* @rate_limit decorates every public operation but search_stocks
RateLimited(op) == op # "search"

IdleFetch ==
    [pc |-> "idle", op |-> "none", tier |-> "realtime", key |-> NoKey, now |-> 0,
     called |-> 0,     \* permits this thread had been issued when the operation was called
     permits |-> 0,    \* permits it had been issued before the pending wait_if_needed
     after |-> "none", \* what the pending wait_if_needed precedes
     attempt |-> 0,    \* the loop variable of _safe_get_info
     i |-> 0,          \* the position in the list the fetch function iterates over
     n |-> 0,          \* the items collected so far
     hist |-> FALSE,   \* len(hist) >= 2
     info |-> "none",  \* what _safe_get_info returned: "ok", or "empty" for {}
     log |-> <<>>,     \* the upstream attempts and backoff sleeps of the operation
     gce |-> "none", ret |-> NoPayload]

\* An upstream attempt (or a backoff sleep) as recorded in the log: where,
\* what the upstream did, the value of attempt, and the permits the thread
\* had been issued by then.
Event(site, out, attempt) ==
    [site |-> site, out |-> out, attempt |-> attempt, permits |-> Permits(FT)]

\* the mutant: ticker.history is called without asking the limiter
WaitsBeforeExceptHistory(site) == site # "history"

\* YAHOO_RATE_LIMITER.wait_if_needed() precedes the upstream call of the site:
\* lines 168, 190, 346, 365, 489, 612, 641, 741
WaitsBefore(site) == TRUE

\* The thread moves on to the upstream call of site, through wait_if_needed.
GoTo(f, site) ==
    [f EXCEPT !.pc = IF WaitsBefore(site) THEN "wait" ELSE "call",
              !.after = site, !.permits = Permits(FT)]

\* The thread is at the upstream call of site: its wait_if_needed has returned.
Ready(site) ==
    /\ ft.after = site
    /\ \/ ft.pc = "call"
       \/ ft.pc = "wait" /\ Permits(FT) > ft.permits

\* The thread is about to call wait_if_needed.
NeedsPermit == ft.pc = "wait" /\ Permits(FT) = ft.permits

\* A public operation is called (lines 53-58, 244-251, 324-329, 449-454,
\* 585-589, 715-721): the wrapper of @rate_limit asks the limiter first.
PublicCall(c) ==
    /\ ft.pc = "idle"
    /\ ops < MaxOps
    /\ ops' = ops + 1
    /\ ft' = [IdleFetch EXCEPT !.op = c.op, !.tier = c.tier, !.key = c.key,
                               !.called = Permits(FT), !.permits = Permits(FT),
                               !.after = "body",
                               !.pc = IF RateLimited(c.op) THEN "wait" ELSE "call"]
    /\ UNCHANGED <<clock, cache, wk, rlvars, apvars, rng, np_rng, gen, made, cs>>

\* The body of the operation: _get_cached_or_execute, lines 209-222.  A fresh
\* entry is returned; otherwise the fetch function starts.
CachedOrExecute ==
    /\ Ready("body")
    /\ IF Fresh(ft.tier, ft.key, clock, TTL(ft.tier))
       THEN ft' = [ft EXCEPT !.pc = "done", !.gce = "hit",
                             !.ret = cache[ft.tier][ft.key].data]
       ELSE ft' = GoTo([ft EXCEPT !.now = clock, !.i = 1],
                       IF ft.op = "summary" THEN "index" ELSE "lookup")
    /\ UNCHANGED <<clock, cache, wk, ops, rlvars, apvars, rng, np_rng, gen, made, cs>>

\* get_market_movers: the next stock of the list, or the end of the loop
NextStock(f) ==
    IF f.i < MaxMovers THEN GoTo([f EXCEPT !.i = @ + 1], "lookup")
    ELSE [f EXCEPT !.pc = "store"]

\* _safe_fetch_ticker, lines 164-179: one access to ticker.info; an exception
\* gives None.  Then the caller: lines 336-341, 484-489, 252-259, 735-741.
SafeFetchTicker(out) ==
    LET f == [ft EXCEPT !.log = Append(@, Event("lookup", out, 0))]
        ticker == NoException(out)
    IN
    /\ Ready("lookup")
    /\ ft' = CASE ft.op = "details" ->
                    IF ticker THEN GoTo([f EXCEPT !.attempt = 0], "info")
                    ELSE [f EXCEPT !.pc = "failed"]
               [] ft.op = "historical" ->
                    IF ticker THEN GoTo(f, "history") ELSE [f EXCEPT !.pc = "failed"]
               [] ft.op = "search" ->
                    IF ticker THEN GoTo([f EXCEPT !.attempt = 0], "info")
                    ELSE [f EXCEPT !.pc = "store"]
               [] OTHER ->
                    IF ticker THEN GoTo(f, "history") ELSE NextStock(f)
    /\ UNCHANGED <<clock, cache, wk, ops, rlvars, apvars, rng, np_rng, gen, made, cs>>

\* _safe_get_info has returned to its caller: lines 342-346, 257-262, 744-760
InfoReturns(f, got) ==
    LET g == [f EXCEPT !.info = IF got THEN "ok" ELSE "empty"] IN
    CASE f.op = "details" -> IF got THEN GoTo(g, "history") ELSE [g EXCEPT !.pc = "failed"]
      [] f.op = "search" -> [g EXCEPT !.pc = "store"]
      [] OTHER -> NextStock([g EXCEPT !.n = IF got /\ g.hist THEN @ + 1 ELSE @])

\* The loop of lines 187-203 goes on to its next attempt, or ends: return {}
AfterAttempt(f) ==
    IF f.attempt + 1 < InfoAttempts
    THEN GoTo([f EXCEPT !.attempt = @ + 1], "info")
    ELSE InfoReturns(f, FALSE)

\* the mutant: the backoff sleep follows the last attempt too
SleepsAfterEvery(attempt) == TRUE

\* if attempt < 2: time.sleep((2 ** attempt) + random.random())
SleepsAfter(attempt) == attempt < 2

\* _safe_get_info, lines 188-198: one attempt of the loop
SafeGetInfoAttempt(out) ==
    LET f == [ft EXCEPT !.log = Append(@, Event("info", out, ft.attempt))] IN
    /\ Ready("info")
    /\ ft' = IF out = "ok" THEN InfoReturns(f, TRUE)
             ELSE IF SleepsAfter(ft.attempt) THEN [f EXCEPT !.pc = "backoff"]
             ELSE AfterAttempt(f)
    /\ UNCHANGED <<clock, cache, wk, ops, rlvars, apvars, rng, np_rng, gen, made, cs>>

\* _safe_get_info, lines 200-203: the backoff sleep is over
SafeGetInfoSleep ==
    /\ ft.pc = "backoff"
    /\ ft' = AfterAttempt([ft EXCEPT !.log = Append(@, Event("sleep", "none", ft.attempt))])
    /\ UNCHANGED <<clock, cache, wk, ops, rlvars, apvars, rng, np_rng, gen, made, cs>>

\* ticker.history: line 347 (then 362-366: the recommendations are asked for
\* when random.random() < 0.3), line 490 (hist.empty raises at 493), line 743
\* (an exception ends the stock at 761).
TickerHistory(out, draw) ==
    LET f == [ft EXCEPT !.log = Append(@, Event("history", out, 0))] IN
    /\ Ready("history")
    /\ ft.op \in {"details", "historical", "movers"}
    /\ ft.op # "details" => ~draw
    /\ ft' = CASE ft.op = "details" ->
                    IF ~NoException(out) THEN [f EXCEPT !.pc = "failed"]
                    ELSE IF draw THEN GoTo(f, "recs")
                    ELSE [f EXCEPT !.pc = "store"]
               [] ft.op = "historical" ->
                    IF out = "ok" THEN [f EXCEPT !.pc = "store"]
                    ELSE [f EXCEPT !.pc = "failed"]
               [] OTHER ->
                    IF NoException(out)
                    THEN GoTo([f EXCEPT !.hist = (out = "ok"), !.attempt = 0], "info")
                    ELSE NextStock(f)
    /\ UNCHANGED <<clock, cache, wk, ops, rlvars, apvars, rng, np_rng, gen, made, cs>>

\* ticker.recommendations, lines 365-384: any exception is caught at 383
TickerRecommendations(out) ==
    /\ Ready("recs")
    /\ ft' = [ft EXCEPT !.log = Append(@, Event("recs", out, 0)), !.pc = "store"]
    /\ UNCHANGED <<clock, cache, wk, ops, rlvars, apvars, rng, np_rng, gen, made, cs>>

\* get_market_summary, lines 609-638: the history of one index; the sectors
\* follow when at least one index was obtained
IndexHistory(out) ==
    LET f == [ft EXCEPT !.log = Append(@, Event("index", out, 0)),
                        !.n = IF out = "ok" THEN @ + 1 ELSE @]
    IN
    /\ Ready("index")
    /\ ft' = IF ft.i < MaxIndices THEN GoTo([f EXCEPT !.i = @ + 1], "index")
             ELSE IF f.n > 0 THEN GoTo([f EXCEPT !.i = 1], "sector")
             ELSE [f EXCEPT !.pc = "store"]
    /\ UNCHANGED <<clock, cache, wk, ops, rlvars, apvars, rng, np_rng, gen, made, cs>>

\* get_market_summary, lines 638-660: the history of one sector fund
SectorHistory(out) ==
    LET f == [ft EXCEPT !.log = Append(@, Event("sector", out, 0))] IN
    /\ Ready("sector")
    /\ ft' = IF ft.i < MaxSectors THEN GoTo([f EXCEPT !.i = @ + 1], "sector")
             ELSE [f EXCEPT !.pc = "store"]
    /\ UNCHANGED <<clock, cache, wk, ops, rlvars, apvars, rng, np_rng, gen, made, cs>>

\* The structure the fetch function returns.
Fetched ==
    CASE ft.op = "summary" -> Payload("summary", "", "yfinance", ft.n)
      [] ft.op = "movers" -> Payload("movers", "", "yfinance", Min(ft.n, ft.key.limit))
      [] ft.op = "search" -> Payload("search", ft.key.sym, NoField, Min(1, ft.key.limit))
      [] OTHER -> Payload(ft.op, ft.key.sym, "yfinance", 1)

\* _get_cached_or_execute, lines 222-231: the fetch function has returned
FetchStored ==
    /\ ft.pc = "store"
    /\ cache' = Put(ft.tier, ft.key, Fetched, ft.now)
    /\ ft' = [ft EXCEPT !.pc = "done", !.gce = "fetched", !.ret = Fetched]
    /\ UNCHANGED <<clock, wk, ops, rlvars, apvars, rng, np_rng, gen, made, cs>>

\* _get_cached_or_execute, lines 232-242, and the handler of the operation:
\* the fetch function has raised
FetchFailed ==
    /\ ft.pc = "failed"
    /\ cache' = CacheAfterFailure(ft.tier, ft.key, ft.op, ft.now)
    /\ ft' = IF HasFallback(ft.tier, ft.key)
             THEN [ft EXCEPT !.pc = "done", !.gce = "expired",
                             !.ret = cache[ft.tier][ft.key].data]
             ELSE [ft EXCEPT !.pc = "done", !.gce = "raise",
                             !.ret = Mock(ft.op, ft.key.sym)]
    /\ UNCHANGED <<clock, wk, ops, rlvars, apvars, rng, np_rng, gen, made, cs>>

\* the caller has its result
FetchReturn ==
    /\ ft.pc = "done"
    /\ ft' = IdleFetch
    /\ UNCHANGED <<clock, cache, wk, ops, rlvars, apvars, rng, np_rng, gen, made, cs>>

\* Time passes between two operations and while the thread sleeps in the limiter.
FetchTick ==
    /\ ft.pc = "idle" \/ rl_pc[FT] = "sleeping"
    /\ Tick

\* An hour passes between two operations.
FetchTickHour ==
    /\ ft.pc = "idle"
    /\ TickHour

(***************************************************************************)
(* The random generators of the process and the synthetic structures.  A   *)
(* generator is its seed and the number of values drawn since it was       *)
(* seeded; a drawn value is determined by the two, and values drawn at     *)
(* different positions are taken to differ.  The functions of Python's     *)
(* random module share one generator among all threads; the functions of   *)
(* np.random share another one, which random.seed does not touch.          *)
(***************************************************************************)
MaxFields == 2      \* the first MaxFields numeric fields drawn by _get_mock_stock_details
MaxMocks == 3       \* synthetic structures built in one behaviour
MaxDraws == 3       \* values drawn from one generator since it was seeded

MockSymbols == {"AAPL", "MSFT"}

\* the seed a generator has when nobody seeded it
OsEntropy == "os entropy"

\* hash(symbol) % 10000
SeedOf(sym) == sym

\* the value a generator yields next
NextValue(g) == <<g.seed, g.n>>

IdleGen == [pc |-> "idle", sym |-> "", fields |-> <<>>]

\* the _get_mock_* calls begun so far
MocksBegun == Len(made) + Cardinality({t \in Callers : gen[t].pc # "idle"})

\* _get_mock_stock_details, lines 419-426: random.seed(hash(symbol) % 10000)
MockDetailsSeed(t, sym) ==
    /\ gen[t].pc = "idle"
    /\ MocksBegun < MaxMocks
    /\ rng' = [seed |-> SeedOf(sym), n |-> 0]
    /\ gen' = [gen EXCEPT ![t] = [pc |-> "draw", sym |-> sym, fields |-> <<>>]]
    /\ UNCHANGED <<clock, rlvars, svvars, apvars, ft, np_rng, made, cs>>

\* _get_mock_stock_details, lines 428-447: one random.uniform of the returned
\* structure; after the last one the structure is returned
MockDetailsDraw(t) ==
    LET fields == Append(gen[t].fields, NextValue(rng)) IN
    /\ gen[t].pc = "draw"
    /\ rng' = [rng EXCEPT !.n = @ + 1]
    /\ IF Len(fields) < MaxFields
       THEN /\ gen' = [gen EXCEPT ![t].fields = fields]
            /\ UNCHANGED made
       ELSE /\ gen' = [gen EXCEPT ![t] = IdleGen]
            /\ made' = Append(made, [fn |-> "details", sym |-> gen[t].sym, tf |-> "",
                                     fields |-> fields])
    /\ UNCHANGED <<clock, rlvars, svvars, apvars, ft, np_rng, cs>>

\* A thread outside the _get_mock_* functions draws from the random module:
\* the jitter of lines 42, 201, 311, 333, 633, the test of line 364
RandomDraw(t) ==
    /\ gen[t].pc = "idle"
    /\ rng.n < MaxDraws
    /\ rng' = [rng EXCEPT !.n = @ + 1]
    /\ UNCHANGED <<clock, rlvars, svvars, apvars, ft, np_rng, gen, made, cs>>

\* _get_mock_historical_data, lines 525-583: random.seed(hash(symbol) % 10000),
\* then the series is made from returns = np.random.normal(0, volatility, points)
MockHistorical(t, sym, tf) ==
    /\ gen[t].pc = "idle"
    /\ MocksBegun < MaxMocks
    /\ rng' = [seed |-> SeedOf(sym), n |-> 0]
    /\ np_rng' = [np_rng EXCEPT !.n = @ + 1]
    /\ made' = Append(made, [fn |-> "historical", sym |-> sym, tf |-> tf,
                             fields |-> <<NextValue(np_rng)>>])
    /\ UNCHANGED <<clock, rlvars, svvars, apvars, ft, gen, cs>>

(***************************************************************************)
(* A CacheCleanupService followed through calls of start() and stop(), one *)
(* after the other, and the loop threads it has started.                   *)
(***************************************************************************)
MaxStarts == 3      \* start() calls in one behaviour
MaxStops == 3       \* stop() calls in one behaviour

\* CacheCleanupService.__init__, cache_cleanup.py 10-15: no call made, no thread
NoLoops == [starts |-> 0, stops |-> 0, joining |-> FALSE, loops |-> <<>>]

\* the loop threads that have not left _cleanup_loop
Alive == {i \in 1..Len(cs.loops) : cs.loops[i] # "exited"}

\* if self.running: return  (cache_cleanup.py 19-20)
AlreadyRunning == running

\* start(), cache_cleanup.py 17-25
Start ==
    /\ cs.starts < MaxStarts
    /\ ~cs.joining
    /\ IF AlreadyRunning
       THEN /\ cs' = [cs EXCEPT !.starts = @ + 1]
            /\ UNCHANGED running
       ELSE /\ running' = TRUE
            /\ cs' = [cs EXCEPT !.starts = @ + 1, !.loops = Append(@, "test")]
    /\ UNCHANGED <<clock, rlvars, svvars, lock, th, sw, ft, rng, np_rng, gen, made>>

\* stop(), cache_cleanup.py 27-31: the flag is cleared, and the call goes on
\* to join self.thread, the thread started last, if there is one
Stop ==
    /\ cs.stops < MaxStops
    /\ ~cs.joining
    /\ running' = FALSE
    /\ cs' = [cs EXCEPT !.stops = @ + 1, !.joining = (Len(cs.loops) > 0)]
    /\ UNCHANGED <<clock, rlvars, svvars, lock, th, sw, ft, rng, np_rng, gen, made>>

\* self.thread.join(timeout=1.0), cache_cleanup.py 31: it returns when the
\* thread has ended, or after one second when the thread is inside
\* time.sleep(self.interval), which lasts 300 seconds
StopJoin ==
    /\ cs.joining
    /\ cs.loops[Len(cs.loops)] \in {"exited", "sleep"}
    /\ cs' = [cs EXCEPT !.joining = FALSE]
    /\ UNCHANGED <<clock, rlvars, svvars, apvars, ft, rng, np_rng, gen, made>>

\* _cleanup_loop, cache_cleanup.py 36-43: the test of self.running, one
\* _perform_cleanup, and the thread is inside time.sleep(self.interval)
CleanupLoop(i) ==
    /\ i \in 1..Len(cs.loops)
    /\ cs.loops[i] = "test"
    /\ IF running
       THEN /\ cache' = AfterPerformCleanup(clock)
            /\ cs' = [cs EXCEPT !.loops[i] = "sleep"]
       ELSE /\ cs' = [cs EXCEPT !.loops[i] = "exited"]
            /\ UNCHANGED cache
    /\ UNCHANGED <<clock, wk, ops, rlvars, apvars, ft, rng, np_rng, gen, made>>

\* cache_cleanup.py 43: time.sleep(self.interval) is over
CleanupLoopWake(i) ==
    /\ i \in 1..Len(cs.loops)
    /\ cs.loops[i] = "sleep"
    /\ cs' = [cs EXCEPT !.loops[i] = "test"]
    /\ UNCHANGED <<clock, rlvars, svvars, apvars, ft, rng, np_rng, gen, made>>

\* The process has started: nothing has seeded the generators yet, and the
\* CacheCleanupService followed on its own has just been constructed.
InitDetail ==
    /\ ft = IdleFetch
    /\ cs = NoLoops
    /\ rng = [seed |-> OsEntropy, n |-> 0]
    /\ np_rng = [seed |-> OsEntropy, n |-> 0]
    /\ gen = [t \in Callers |-> IdleGen]
    /\ made = <<>>

\* StockService.__init__ lines 82 and 95-96, and app.py 52-53: the lock is
\* free, both sweeper threads are started, cleanup_service.running is True
InitApp ==
    /\ lock = NoCaller
    /\ th = [t \in Callers |-> IdleThread]
    /\ running = TRUE
    /\ sw = [s \in Sweepers |->
                IF s = TaskThread THEN [pc |-> "sleep", now |-> 0]
                ELSE [pc |-> "loop", now |-> 0]]

\* StockService.__init__, lines 72-82
InitService ==
    /\ cache = [tier \in Tiers |-> <<>>]
    /\ wk = [w \in Workers |-> IdleWorker]
    /\ ops = 0

\* The limiter alone, with the service untouched.
InitLimiterSpec == InitLimiter /\ InitService /\ InitApp /\ InitDetail

\* The service, with the module's limiter as constructed at line 50.
Init ==
    /\ clock = 0
    /\ max_calls = YAHOO_MAX_CALLS
    /\ period = YAHOO_PERIOD
    /\ timestamps = <<>>
    /\ rl_lock = NoCaller
    /\ rl_pc = [t \in Callers |-> "idle"]
    /\ rl_now = [t \in Callers |-> 0]
    /\ rl_wake = [t \in Callers |-> 0]
    /\ rl_calls = 0
    /\ rl_log = <<>>
    /\ InitService
    /\ InitApp
    /\ InitDetail

Next ==
    \/ \E w \in Serving, sym \in Symbols : CallDetails(w, sym)
    \/ \E w \in Serving, sym \in Symbols, tf \in Timeframes : CallHistorical(w, sym, tf)
    \/ \E w \in Serving : CallSummary(w)
    \/ \E w \in Serving, limit \in MoversLimits : CallMovers(w, limit)
    \/ \E w \in Serving, limit \in Limits : CallWatched(w, limit)
    \/ \E w \in Serving, query \in Queries, limit \in SearchLimits : CallSearch(w, query, limit)
    \/ \E w \in Serving, syms \in BatchLists : CallBatch(w, syms)
    \/ \E w \in Serving : GceBegin(w)
    \/ \E w \in Serving : LoopNext(w)
    \/ \E w \in Serving : LoopEnd(w)
    \/ \E w \in Serving, up \in Upstream : FetchDone(w, up)
    \/ \E w \in Serving : Return(w)
    \/ CleanupCache
    \/ PerformCleanup
    \/ Tick
    \/ TickHour

Spec == Init /\ [][Next]_vars

\* Several callers share one limiter.
NextLimiter ==
    \/ \E t \in Callers : EnterFree(t)
    \/ \E t \in Callers : EnterBlocked(t)
    \/ \E t \in Callers : Acquire(t)
    \/ \E t \in Callers : Wake(t)
    \/ \E t \in Callers : Recover(t)
    \/ TickLimiter

SpecLimiter == InitLimiterSpec /\ [][NextLimiter]_vars

\* Several callers share one limiter, time never stops under a sleeper, and
\* the scheduler is fair: the clock advances, a sleep that is over ends, a
\* caller waiting for the lock gets it.
NextLimiterFair ==
    \/ \E t \in Callers : EnterFree(t)
    \/ \E t \in Callers : EnterBlocked(t)
    \/ \E t \in Callers : Acquire(t)
    \/ \E t \in Callers : Wake(t)
    \/ \E t \in Callers : Recover(t)
    \/ TickLimiter
    \/ TickAsleep

SpecLimiterFair ==
    /\ InitLimiterSpec
    /\ [][NextLimiterFair]_vars
    /\ WF_vars(TickLimiter \/ TickAsleep)
    /\ \A t \in Callers : SF_vars(Acquire(t)) /\ WF_vars(Wake(t))

\* One caller issues its calls one after the other.
NextSequential ==
    \/ EnterFree(1)
    \/ Wake(1)
    \/ Recover(1)
    \/ TickLimiter

SpecSequential == InitLimiterSpec /\ [][NextSequential]_vars

\* The application's threads, at a moment when YAHOO_RATE_LIMITER has issued
\* max_calls permits during the tick before: the next callers have to wait.
InitThreads ==
    /\ clock = 0
    /\ max_calls = YAHOO_MAX_CALLS
    /\ period = YAHOO_PERIOD
    /\ timestamps = [i \in 1..YAHOO_MAX_CALLS |-> 0 - 1]
    /\ rl_lock = NoCaller
    /\ rl_pc = [t \in Callers |-> "idle"]
    /\ rl_now = [t \in Callers |-> 0]
    /\ rl_wake = [t \in Callers |-> 0]
    /\ rl_calls = 0
    /\ rl_log = <<>>
    /\ InitService
    /\ InitApp
    /\ InitDetail

NextThreads ==
    \/ \E t \in Callers, tier \in ThreadTiers, key \in ThreadKeys : GceCall(t, tier, key)
    \/ \E t \in Callers : GceLock(t)
    \/ \E t \in Callers : GceCheck(t)
    \/ \E t \in Callers : WantsPermit(t) /\ EnterFree(t)
    \/ \E t \in Callers : WantsPermit(t) /\ EnterBlocked(t)
    \/ \E t \in Callers : Acquire(t)
    \/ \E t \in Callers : Wake(t)
    \/ \E t \in Callers : BodyStart(t)
    \/ \E t \in Callers, up \in Upstream : UpstreamDone(t, up)
    \/ \E t \in Callers : StoreLock(t)
    \/ \E t \in Callers : Store(t)
    \/ \E t \in Callers : FallbackLock(t)
    \/ \E t \in Callers : Fallback(t)
    \/ \E t \in Callers, sym \in ThreadSymbols : BatchCall(t, sym)
    \/ \E t \in Callers : BatchLock(t)
    \/ \E t \in Callers : BatchPartition(t)
    \/ \E t \in Callers : Pace(t)
    \/ \E t \in Callers : Teardown(t)
    \/ TaskWake
    \/ TaskLock
    \/ TaskSweep
    \/ ServiceLoop
    \/ ServiceLock
    \/ ServiceSweep
    \/ Tick

SpecThreads == InitThreads /\ [][NextThreads]_vars

\* One request thread, its operations one after the other, each followed
\* through its upstream calls; the limiter starts as under SpecThreads.
NextFetch ==
    \/ \E c \in FetchCalls : PublicCall(c)
    \/ NeedsPermit /\ WaitIfNeeded(FT)
    \/ Wake(FT)
    \/ CachedOrExecute
    \/ \E out \in UpOutcomes : SafeFetchTicker(out)
    \/ \E out \in UpOutcomes : SafeGetInfoAttempt(out)
    \/ SafeGetInfoSleep
    \/ \E out \in UpOutcomes, draw \in BOOLEAN : TickerHistory(out, draw)
    \/ \E out \in UpOutcomes : TickerRecommendations(out)
    \/ \E out \in UpOutcomes : IndexHistory(out)
    \/ \E out \in UpOutcomes : SectorHistory(out)
    \/ FetchStored
    \/ FetchFailed
    \/ FetchReturn
    \/ FetchTick
    \/ FetchTickHour

SpecFetch == InitThreads /\ [][NextFetch]_vars

\* The request threads build synthetic structures and draw random numbers.
NextMock ==
    \/ \E t \in Callers, sym \in MockSymbols : MockDetailsSeed(t, sym)
    \/ \E t \in Callers : MockDetailsDraw(t)
    \/ \E t \in Callers : RandomDraw(t)
    \/ \E t \in Callers, sym \in MockSymbols, tf \in Timeframes : MockHistorical(t, sym, tf)

SpecMock == Init /\ [][NextMock]_vars

\* A CacheCleanupService as constructed (cache_cleanup.py 10-15), before any
\* start(): self.running is False and there is no thread.
InitCleanup ==
    /\ clock = 0
    /\ max_calls = YAHOO_MAX_CALLS
    /\ period = YAHOO_PERIOD
    /\ timestamps = <<>>
    /\ rl_lock = NoCaller
    /\ rl_pc = [t \in Callers |-> "idle"]
    /\ rl_now = [t \in Callers |-> 0]
    /\ rl_wake = [t \in Callers |-> 0]
    /\ rl_calls = 0
    /\ rl_log = <<>>
    /\ InitService
    /\ lock = NoCaller
    /\ th = [t \in Callers |-> IdleThread]
    /\ running = FALSE
    /\ sw = [s \in Sweepers |-> [pc |-> "sleep", now |-> 0]]
    /\ InitDetail

\* start() and stop() are called one after the other, in any order, while the
\* loop threads run.
NextCleanup ==
    \/ Start
    \/ Stop
    \/ StopJoin
    \/ \E i \in 1..MaxStarts : CleanupLoop(i)
    \/ \E i \in 1..MaxStarts : CleanupLoopWake(i)

SpecCleanup == InitCleanup /\ [][NextCleanup]_vars

(***************************************************************************)
(* Claims about the RateLimiter                                            *)
(***************************************************************************)

\* The timestamps recorded up to the i-th return that lie within the
\* trailing window of length period at the instant of that return.
InWindowAtReturn(i) ==
    {j \in 1..i : rl_log[i].ret - rl_log[j].ts < period}

\* C1: with max_calls > 0 and period > 0, at the instant any wait_if_needed
\* call returns, at most max_calls recorded timestamps (the new one included)
\* lie within the trailing window of length period, for every interleaving
\* of concurrent callers.
C1_WindowNeverExceeded ==
    (max_calls > 0 /\ period > 0) =>
        \A i \in 1..Len(rl_log) : Cardinality(InWindowAtReturn(i)) <= max_calls

\* C2: one caller, calls in sequence: call number k + max_calls never returns
\* before the return time of call number k plus period.
C2_SequentialSpacing ==
    (max_calls > 0 /\ period > 0) =>
        \A k \in 1..Len(rl_log) :
            (k + max_calls <= Len(rl_log)) =>
                rl_log[k + max_calls].ret >= rl_log[k].ret + period

\* C2's case: a call beyond the first max_calls that had to sleep has returned.
C2_Witness ==
    /\ max_calls = 2 /\ period = 3
    /\ Len(rl_log) >= 3
    /\ rl_log[3].ret = rl_log[1].ret + period + 1
    /\ rl_log[2].ret > rl_log[1].ret

(***************************************************************************)
(* Claims about the cache and the query operations                         *)
(***************************************************************************)

\* Worker w runs lines 209-218 of _get_cached_or_execute in this step.
ReadStep(w) == wk[w].pc = "gce" /\ wk'[w].pc # "gce"

\* Worker w's fetch function returns or raises in this step, and lines
\* 221-242 run.
FetchStep(w) == wk[w].pc = "fetch" /\ wk'[w].pc # "fetch"

\* The value worker record r has just been handed by its current call.
DeliveredVal(r) == IF r.pc = "loop" THEN r.acc[Len(r.acc)].val ELSE r.ret

\* The fetch function of w's current call raises in this step.
FetchRaises(w) ==
    FetchStep(w) /\ FetchResult(wk[w].fop, wk[w].key, wk'[w].up).raised

\* C3: a read at a time t < t0 + ttl, t0 being the time the entry was
\* stored, returns the stored value without invoking fetch, and a read at
\* t >= t0 + ttl invokes fetch again.
C3_FreshUntilStoredPlusTtl ==
    [][\A w \in Workers :
          (ReadStep(w) /\ wk[w].key \in DOMAIN cache[wk[w].tier]) =>
              LET e == cache[wk[w].tier][wk[w].key] IN
              IF clock < e.stored + TTL(wk[w].tier)
              THEN wk'[w].gce = "hit" /\ DeliveredVal(wk'[w]) = e.data
              ELSE wk'[w].gce # "hit"]_vars

C5_NoEntryPropagates ==
    [][\A w \in Workers :
          (FetchRaises(w) /\ wk[w].key \notin DOMAIN cache[wk[w].tier]) =>
              /\ wk'[w].gce = "raise"
              /\ cache' = cache]_vars

\* C5's case: the fetch of a key with no entry has failed, the failure has
\* left _get_cached_or_execute, and the key still has no entry.
C5_Witness ==
    \E w \in Workers :
        /\ wk[w].pc = "done" /\ wk[w].gce = "raise" /\ wk[w].up = "fail"
        /\ wk[w].op = "details"
        /\ wk[w].key \notin DOMAIN cache[wk[w].tier]

\* The operations that promise a result for every upstream behaviour.
NeverRaising == {"details", "historical", "summary", "movers", "watched"}

\* C6: get_stock_details, get_historical_data, get_market_summary,
\* get_market_movers and get_most_watched return a result and never raise,
\* whatever the upstream does.
C6_NeverRaises ==
    \A w \in Workers :
        wk[w].op \in NeverRaising =>
            /\ wk[w].outcome # "raised"
            /\ wk[w].pc = "done" => (wk[w].outcome = "returned" /\ wk[w].ret # NoPayload)

\* C6's case: the upstream failed with nothing cached, and the operation
\* has returned all the same.
C6_Witness ==
    \E w \in Workers :
        /\ wk[w].op = "historical" /\ wk[w].pc = "done"
        /\ wk[w].up = "fail" /\ ~wk[w].had
        /\ wk[w].outcome = "returned"

\* C7: get_stock_details and get_historical_data return a mock result only
\* when the fetch failed and no entry at all exists for the key at the time of
\* the fallback; whenever an entry exists the fallback is the cached value.
C7_MockOnlyWithoutEntry ==
    \A w \in Workers :
        (wk[w].op \in {"details", "historical"} /\ wk[w].pc = "done") =>
            /\ wk[w].ret.dataSource = "mock" =>
                   (wk[w].up = "fail" /\ ~wk[w].had /\ wk[w].gce = "raise")
            /\ (wk[w].up = "fail" /\ wk[w].had) =>
                   (wk[w].gce = "expired" /\ wk[w].ret.dataSource # "mock")
            /\ wk[w].up = "ok" => wk[w].gce = "fetched"

\* C7's case: a fetch failed while an expired entry existed, and the cached
\* value, not a mock, was returned by get_historical_data.
C7_Witness ==
    \E w \in Workers :
        /\ wk[w].op = "historical" /\ wk[w].pc = "done"
        /\ wk[w].up = "fail" /\ wk[w].had
        /\ wk[w].ret.dataSource = "yfinance"

\* The discriminator's values: live is spelt "yfinance" by the code.
DataSources == {"yfinance", "stale", "mock"}

\* The values worker record r returns to its caller.
ReturnedValues(r) ==
    IF r.op = "batch" THEN {r.acc[i].val : i \in 1..Len(r.acc)} ELSE {r.ret}

\* C8: every value returned by a public query operation carries a dataSource
\* discriminator that is one of live, stale, mock.
C8_EveryValueTagged ==
    \A w \in Workers :
        (wk[w].pc = "done" /\ wk[w].outcome = "returned") =>
            \A v \in ReturnedValues(wk[w]) : v.dataSource \in DataSources

\* C9: a value served from an existing entry because the fetch failed is
\* tagged stale: its dataSource differs from the one it carried when it was
\* served as a fresh fetch or a fresh cache hit.
C9_StaleIsTagged ==
    \A w \in Workers :
        (wk[w].pc = "done" /\ wk[w].gce = "expired") =>
            /\ wk[w].ret.dataSource = "stale"
            /\ wk[w].ret.dataSource # "yfinance"

\* The symbols of a list.
Range(seq) == {seq[i] : i \in 1..Len(seq)}

\* C10: get_batch_stock_details returns, without raising, a map with exactly
\* one result per distinct requested symbol; a symbol whose upstream fails and
\* which has no entry maps to a mock result, and every other symbol gets its
\* own result whatever happened to its siblings.
C10_BatchIsolation ==
    \A w \in Workers :
        (wk[w].op = "batch" /\ wk[w].pc = "done") =>
            LET acc == wk[w].acc IN
            /\ wk[w].outcome = "returned"
            /\ {acc[i].sym : i \in 1..Len(acc)} = Range(wk[w].req)
            /\ \A i \in 1..Len(acc) :
                  /\ acc[i].val.kind = "details"
                  /\ acc[i].val.symbol = Upper(acc[i].sym)
                  /\ (acc[i].up = "fail" /\ ~acc[i].had) => acc[i].val.dataSource = "mock"
                  /\ (acc[i].up = "fail" /\ acc[i].had) =>
                         (acc[i].gce = "expired" /\ acc[i].val.dataSource = "yfinance")
                  /\ acc[i].up = "ok" =>
                         (acc[i].gce = "fetched" /\ acc[i].val.dataSource = "yfinance")

\* C10's case: a batch of two symbols has returned; the first failed with
\* nothing cached and is a mock, the second was fetched after it.
C10_Witness ==
    \E w \in Workers :
        /\ wk[w].op = "batch" /\ wk[w].pc = "done"
        /\ Len(wk[w].req) = 2 /\ Len(wk[w].acc) = 2
        /\ wk[w].acc[1].sym # wk[w].acc[2].sym
        /\ wk[w].acc[1].up = "fail" /\ wk[w].acc[1].val.dataSource = "mock"
        /\ wk[w].acc[2].up = "ok" /\ wk[w].acc[2].val.dataSource = "yfinance"

(***************************************************************************)
(* Claims about the sweepers, the locks and the tiers                      *)
(***************************************************************************)

\* C11: after entries were inserted in any tier and time has advanced past
\* that tier's TTL + grace, one pass of CacheCleanupService._perform_cleanup
\* removes every such entry in every tier: none older than its tier's
\* TTL + grace is left.
C11_SweepRemovesEveryTier ==
    [][PerformCleanup =>
          \A tier \in Tiers : \A k \in DOMAIN cache'[tier] :
              clock - cache'[tier][k].timestamp <= TTL(tier) + CLEANUP_BUFFER]_vars

\* C12: an entry disappears from a tier only because a sweep found its age
\* greater than the tier's TTL + grace or because a write of the same key
\* replaced it; no read deletes it, and an expired entry whose age is at most
\* TTL + grace is still there.
C12_RemovedOnlyPastGrace ==
    [][\A tier \in Tiers : \A k \in DOMAIN cache[tier] :
          k \notin DOMAIN cache'[tier] =>
              clock - cache[tier][k].timestamp > TTL(tier) + CLEANUP_BUFFER]_vars

AllThreads == Callers \cup Sweepers

\* Thread x is inside a "with self.lock" block of the cache.
InsideAccess(x) ==
    IF x \in Callers THEN th[x].pc \in {"in215", "in225", "in236", "in292"}
    ELSE sw[x].pc \in {"in144", "in50"}

\* Thread x is waiting at a "with self.lock" of the cache.
WaitsForLock(x) ==
    IF x \in Callers THEN th[x].pc \in {"at215", "at225", "at236", "at292"}
    ELSE sw[x].pc \in {"at144", "at50"}

\* C13: every read, write, scan and delete of the cache is performed while
\* holding the instance's single lock: a thread inside a cache access holds
\* the lock, so no two threads are inside at the same time, and the cache
\* changes only in a step of the thread that holds the lock.
C13_CacheAccessUnderLock ==
    /\ [](\A x \in AllThreads : InsideAccess(x) => lock = x)
    /\ [][cache' # cache =>
              (lock \in AllThreads /\ InsideAccess(lock) /\ lock' = NoCaller)]_vars

\* C13's case: a request thread is inside its write of the cache while a
\* sweeper and the other request thread wait for the lock.
C13_Witness ==
    \E a \in Callers, b \in Callers, s \in Sweepers :
        /\ a # b
        /\ th[a].pc = "in225" /\ lock = a
        /\ WaitsForLock(b)
        /\ WaitsForLock(s)

\* C14: no thread holds the cache lock and the limiter's lock at the same
\* time, nor the cache lock during an upstream call, a limiter wait or a
\* pacing sleep; so whoever waits for one of the two locks waits for a thread
\* that is not itself waiting for a lock.
C14_LocksNeverNested ==
    /\ \A t \in Callers :
          /\ ~(lock = t /\ rl_lock = t)
          /\ lock = t => (rl_pc[t] = "idle" /\ InsideAccess(t))
    /\ lock \in Sweepers => InsideAccess(lock)
    /\ \A x \in AllThreads :
          (WaitsForLock(x) /\ lock # NoCaller) => (lock # x /\ InsideAccess(lock))
    /\ \A t \in Callers :
          (rl_pc[t] = "blocked" /\ rl_lock # NoCaller) =>
              (rl_pc[rl_lock] = "sleeping" /\ lock # rl_lock)

\* C14's case: one request thread sleeps inside wait_if_needed with the
\* limiter's lock while another is inside a cache access with the cache lock.
C14_Witness ==
    \E a \in Callers, b \in Callers :
        /\ a # b
        /\ rl_pc[a] = "sleeping" /\ rl_lock = a
        /\ lock = b /\ InsideAccess(b)

\* C15: the limiter's lock is never held across the sleep: while a caller is
\* suspended inside wait_if_needed the lock is free for the others.
C15_LockFreeDuringSleep ==
    \A t \in Callers : rl_pc[t] = "sleeping" => rl_lock # t

\* C16: two successive get_stock_details calls for a key with no entry and a
\* failing upstream return identical synthetic payloads, and the synthetic
\* payloads of two different keys differ.
C16_MockDeterministic ==
    \A w \in Workers :
        wk[w].op = "batch" =>
            \A i \in 1..Len(wk[w].acc) : \A j \in 1..Len(wk[w].acc) :
                (wk[w].acc[i].val.dataSource = "mock" /\ wk[w].acc[j].val.dataSource = "mock")
                    => ((Upper(wk[w].acc[i].sym) = Upper(wk[w].acc[j].sym))
                            <=> (wk[w].acc[i].val = wk[w].acc[j].val))

\* The entry of (T, K) as a set: empty when there is none.
EntryBefore(T, K) == IF K \in DOMAIN cache[T] THEN {cache[T][K]} ELSE {}
EntryAfter(T, K) == IF K \in DOMAIN cache'[T] THEN {cache'[T][K]} ELSE {}

\* This step is the sweep by which (T, K) may go: the sweeper's own threshold
\* for tier T is exceeded by the age of T's own entry.
SweptInStep(T, K) ==
    /\ K \in DOMAIN cache[T]
    /\ \/ /\ sw[TaskThread].pc = "in144" /\ sw'[TaskThread].pc = "sleep"
          /\ sw[TaskThread].now - cache[T][K].timestamp > TTL(T)
       \/ /\ sw[ServiceThread].pc = "in50" /\ sw'[ServiceThread].pc = "loop"
          /\ T \in {"realtime", "historical"}
          /\ sw[ServiceThread].now - cache[T][K].timestamp > TTL(T) + CLEANUP_BUFFER

\* C17: tiers are independent namespaces: the entry under key K of tier T
\* changes only by a write to (T, K) itself or a sweep for T's own age, so a
\* write, overwrite or deletion of K in another tier leaves it unchanged; and
\* a read of K in a tier returns the value stored in that tier.
C17_TiersIndependent ==
    [][/\ \A T \in Tiers : \A K \in ThreadKeys :
              EntryBefore(T, K) # EntryAfter(T, K) =>
                  \/ \E t \in Callers :
                        /\ th[t].pc = "in225" /\ th'[t].pc = "done"
                        /\ th[t].tier = T /\ th[t].key = K
                        /\ EntryAfter(T, K) = {[data |-> th[t].ret, timestamp |-> th[t].now,
                                                stored |-> clock]}
                  \/ SweptInStep(T, K) /\ EntryAfter(T, K) = {}
       /\ \A t \in Callers :
              (th[t].gce = "none" /\ th'[t].gce \in {"hit", "expired"}) =>
                  /\ th[t].key \in DOMAIN cache[th[t].tier]
                  /\ th'[t].ret = cache[th[t].tier][th[t].key].data]_vars

\* C17's case: the same key has an entry in two tiers, and the write to the
\* market tier, the later one, has left the entry of the realtime tier with
\* its own, older timestamp.
C17_Witness ==
    \E K \in ThreadKeys :
        /\ K \in DOMAIN cache["realtime"] /\ K \in DOMAIN cache["market"]
        /\ cache["realtime"][K].timestamp < cache["market"][K].timestamp
        /\ cache["realtime"][K].stored <= cache["market"][K].stored

\* C18: cache entries are created only by successful upstream fetches: no
\* tier holds an entry whose data is synthetic or was produced by a fetch
\* whose upstream calls failed.
C18_OnlySuccessfulFetchesCached ==
    \A tier \in Tiers : \A k \in DOMAIN cache[tier] :
        /\ cache[tier][k].data.dataSource # "mock"
        /\ cache[tier][k].data.kind \in {"summary", "movers"} => cache[tier][k].data.n > 0

\* C19: once started, the cache sweeper keeps making its passes for as long
\* as the process runs: serving or finishing a request never stops it.
C19_SweeperKeepsRunning ==
    running /\ sw[ServiceThread].pc # "exited"

\* seq is what is left of old after dropping some of its oldest elements.
IsSuffix(seq, old) ==
    \E n \in 0..Len(old) : seq = SubSeq(old, n + 1, Len(old))

\* Caller t returns in this step from a wait_if_needed call in which it had
\* to wait for the lock or for the window.
ReturnsLate(t) == rl_pc[t] \in {"blocked", "sleeping"} /\ rl_pc'[t] = "idle"

\* A call is begun and returns within this step.
ReturnsAtOnce == rl_calls' > rl_calls /\ rl_pc' = rl_pc

\* C20: for max_calls > 0 and period > 0 and any number of concurrent
\* callers, every wait_if_needed call eventually returns, under fair
\* scheduling and advancing time, having recorded exactly one timestamp, and
\* it never raises.
C20_WaitAlwaysReturns ==
    /\ [][(max_calls > 0 /\ period > 0) =>
             /\ \A t \in Callers : rl_pc'[t] # "raised"
             /\ IF ReturnsAtOnce \/ \E t \in Callers : ReturnsLate(t)
                THEN /\ Len(rl_log') = Len(rl_log) + 1
                     /\ \A t \in Callers : ReturnsLate(t) => rl_log'[Len(rl_log')].who = t
                     /\ timestamps' # <<>>
                     /\ timestamps'[Len(timestamps')] = rl_log'[Len(rl_log')].ts
                     /\ IsSuffix(SubSeq(timestamps', 1, Len(timestamps') - 1), timestamps)
                ELSE rl_log' = rl_log /\ IsSuffix(timestamps', timestamps)]_vars
    /\ \A t \in Callers :
          (max_calls > 0 /\ period > 0 /\ rl_pc[t] # "idle") ~> (rl_pc[t] = "idle")

\* C20's case: a caller that had to wait for the lock and then for the
\* window has returned, its one timestamp recorded after the other caller's.
C20_Witness ==
    /\ max_calls > 0 /\ period > 0
    /\ Len(rl_log) >= 3
    /\ rl_log[2].who # rl_log[3].who
    /\ rl_log[3].ts > rl_log[2].ts
    /\ rl_log[2].ts > rl_log[1].ts
    /\ \A t \in Callers : rl_pc[t] = "idle"

\* C21: for max_calls > 0 a timestamp is appended only when, after pruning,
\* fewer than max_calls timestamps remain (a caller that slept counts again
\* before it appends), so the deque never holds more than max_calls
\* timestamps.
C21_NeverMoreThanMaxCalls ==
    max_calls > 0 => Len(timestamps) <= max_calls

\* C28: the recorded timestamps are in non-decreasing order, oldest first, in
\* every reachable state, whatever the interleaving of the callers.
C28_TimestampsOrdered ==
    (max_calls > 0 /\ period > 0) =>
        \A i \in 1..(Len(timestamps) - 1) : timestamps[i] <= timestamps[i + 1]

\* An entry of the thread's log that is an upstream attempt.
IsAttempt(e) == e.site # "sleep"

\* the upstream attempts of the operation the thread is in, oldest first
Attempts == SelectSeq(ft.log, IsAttempt)

\* C22: every upstream attempt of an operation (ticker lookup, info, price
\* history, recommendations, index and sector history) is preceded by its own
\* completed wait_if_needed: between two attempts, and between the wrapper's
\* permit and the first attempt, a permit was issued to the thread, so the
\* attempts started never outnumber the permits issued.
C22_PermitBeforeEveryAttempt ==
    /\ Len(Attempts) <= Permits(FT) - ft.called
    /\ Len(Attempts) <= Len(rl_log)
    /\ \A i \in 1..Len(Attempts) :
          Attempts[i].permits >
              (IF i > 1 THEN Attempts[i - 1].permits
               ELSE IF RateLimited(ft.op) THEN ft.called + 1 ELSE ft.called)

\* C22's case: get_stock_details has gone through the ticker lookup, a failed
\* and a successful info attempt, the price history and the recommendations.
C22_Witness ==
    /\ ft.pc = "done" /\ ft.op = "details" /\ ft.gce = "fetched"
    /\ Len(Attempts) = 5
    /\ Attempts[2].out = "empty"
    /\ Attempts[5].site = "recs"

\* C23: the cache is checked before the limiter is consulted: a call of a
\* rate-limited operation that is answered from a fresh cache entry has
\* acquired no permit (and so recorded no timestamp and never waited).
C23_HitTakesNoPermit ==
    (ft.pc = "done" /\ ft.gce = "hit") => Permits(FT) = ft.called

\* max_tries=3, and the "up to 3 attempts in total" of the retry policy
MaxTries == 3

\* the number of attempts made at the site of the operation's last attempt
TriesAtLastSite ==
    Cardinality({i \in 1..Len(Attempts) : Attempts[i].site = Attempts[Len(Attempts)].site})

\* C24: when get_stock_details or get_historical_data falls back to the stale
\* entry or to the mock after transient upstream failures only (exception,
\* timeout, empty payload), the call that failed had been tried 3 times.
C24_TransientFailureRetried ==
    (/\ ft.pc = "done"
     /\ ft.op \in {"details", "historical"}
     /\ ft.gce \in {"expired", "raise"}
     /\ \A i \in 1..Len(Attempts) : Attempts[i].out # "notfound")
    => TriesAtLastSite = MaxTries

\* C25: once the upstream has reported the symbol as unknown, no further
\* upstream attempt is made for that fetch of get_stock_details or
\* get_historical_data.
C25_NotFoundEndsFetch ==
    ft.op \in {"details", "historical"} =>
        \A i \in 1..Len(Attempts) : Attempts[i].out = "notfound" => i = Len(Attempts)

\* The last info attempt of the log was the third of its call and failed.
AllInfoAttemptsFailed ==
    \E i \in 1..Len(ft.log) :
        /\ ft.log[i].site = "info"
        /\ ft.log[i].attempt = InfoAttempts - 1
        /\ ft.log[i].out # "ok"
        /\ \A j \in (i + 1)..Len(ft.log) : ft.log[j].site # "info"

\* C26: _safe_get_info makes at most 3 info attempts per call, each with
\* exactly one permit of its own, none after the first non-empty result; it
\* sleeps only between two attempts, never after the last; and when all 3
\* fail it returns the empty result to its caller without raising.
C26_SafeGetInfoBounded ==
    /\ \A i \in 1..Len(ft.log) :
          ft.log[i].site = "info" =>
              /\ ft.log[i].attempt < InfoAttempts
              /\ i > 1
              /\ ft.log[i].permits = ft.log[i - 1].permits + 1
              /\ IF ft.log[i].attempt = 0
                 THEN ft.log[i - 1].site \in {"lookup", "history"}
                 ELSE /\ ft.log[i - 1].site = "sleep"
                      /\ ft.log[i - 2].site = "info"
                      /\ ft.log[i - 2].out # "ok"
                      /\ ft.log[i - 2].attempt = ft.log[i].attempt - 1
    /\ \A i \in 1..Len(ft.log) :
          ft.log[i].site = "sleep" =>
              /\ i > 1
              /\ ft.log[i - 1].site = "info"
              /\ ft.log[i - 1].out # "ok"
              /\ ft.log[i - 1].attempt < InfoAttempts - 1
              /\ i < Len(ft.log) => ft.log[i + 1].site = "info"
    /\ AllInfoAttemptsFailed =>
          /\ ft.info = "empty"
          /\ ft.op = "search" => ft.pc \in {"store", "done"} /\ ft.gce \in {"none", "fetched"}

\* C26's case: inside search_stocks all three info attempts failed, with a
\* sleep after the first and after the second only, and the search went on to
\* return its result.
C26_Witness ==
    /\ ft.op = "search" /\ ft.pc = "done" /\ ft.gce = "fetched"
    /\ ft.info = "empty"
    /\ Len(ft.log) = 6
    /\ ft.log[6].site = "info" /\ ft.log[6].attempt = 2
    /\ ft.log[5].site = "sleep"

\* Request thread w enters get_batch_stock_details in this step.
BatchCalled(w) == wk[w].pc = "idle" /\ wk'[w].op = "batch"

\* C27: the partition of get_batch_stock_details resolves every requested
\* symbol that has a fresh realtime entry (the entry get_stock_details serves
\* for that symbol) to the cached value, and passes to get_stock_details,
\* with its pacing delay and its permit, only the symbols that have none.
C27_BatchPartition ==
    [][\A w \in Workers :
          BatchCalled(w) =>
              \A i \in 1..Len(wk'[w].req) :
                  LET s == wk'[w].req[i]
                      k == DetailsKey(Upper(s))
                  IN IF Fresh("realtime", k, clock, REALTIME_TTL)
                     THEN /\ s \notin Range(wk'[w].todo)
                          /\ \E j \in 1..Len(wk'[w].acc) :
                                /\ wk'[w].acc[j].sym = s
                                /\ wk'[w].acc[j].gce = "hit"
                                /\ wk'[w].acc[j].val = cache["realtime"][k].data
                     ELSE s \in Range(wk'[w].todo)]_vars

\* the synthetic structures built so far by function fn
MadeBy(fn) == {i \in 1..Len(made) : made[i].fn = fn}

\* C29: any two _get_mock_stock_details calls for the same symbol return the
\* same numeric fields, also when other threads draw from or reseed the
\* shared generator between a call's seeding and its draws.
C29_MockStableUnderConcurrency ==
    \A i, j \in MadeBy("details") :
        made[i].sym = made[j].sym => made[i].fields = made[j].fields

\* C30: two _get_mock_historical_data calls for the same symbol and timeframe
\* in the same process return the same synthetic price series.
C30_MockSeriesRepeatable ==
    \A i, j \in MadeBy("historical") :
        (made[i].sym = made[j].sym /\ made[i].tf = made[j].tf) =>
            made[i].fields = made[j].fields

\* C33: with max_calls <= 0 the limiter never issues a permit: no call
\* returns normally (each one fails with the IndexError of line 42), and no
\* timestamp is ever recorded.
C33_NoPermitWithoutCalls ==
    max_calls <= 0 =>
        /\ timestamps = <<>>
        /\ rl_log = <<>>
        /\ rl_lock = NoCaller
        /\ \A t \in Callers : rl_pc[t] \in {"idle", "raised"}

\* C33's case: with max_calls = 0 both callers have called and both calls
\* have failed.
C33_Witness ==
    /\ max_calls = 0
    /\ rl_calls >= 2
    /\ \A t \in Callers : rl_pc[t] = "raised"

\* C34: with period <= 0 and max_calls > 0 no wait_if_needed call ever
\* sleeps, also when several calls are made at the same clock instant.
C34_NoSleepWithoutPeriod ==
    (period <= 0 /\ max_calls > 0) => \A t \in Callers : rl_pc[t] # "sleeping"

\* C31: when get_market_summary finds no cache entry and every upstream index
\* and sector call fails, it returns the synthetic summary tagged mock and
\* stores nothing in the market tier: no empty summary tagged as live data is
\* returned or cached.
C31_NoEmptyLiveSummary ==
    /\ (/\ ft.op = "summary" /\ ft.pc = "done" /\ ft.gce # "hit"
        /\ \A i \in 1..Len(Attempts) : Attempts[i].out # "ok")
       => (ft.gce = "expired" \/ ft.ret.dataSource = "mock")
    /\ SummaryKey \in DOMAIN cache["market"] =>
          ~(/\ cache["market"][SummaryKey].data.dataSource = "yfinance"
            /\ cache["market"][SummaryKey].data.n = 0)

\* The fetch of worker w's get_stock_details or get_historical_data call
\* fails in this step and the call hands out a mock result.
MockDelivered(w) ==
    /\ FetchStep(w)
    /\ wk[w].fop \in {"details", "historical"}
    /\ wk'[w].gce = "raise"
    /\ DeliveredVal(wk'[w]).dataSource = "mock"

\* C37: when get_stock_details or get_historical_data returns a mock result
\* the cache is left as it was, with no entry for the key, so the next call
\* for the same key is not served from the cache: it invokes the fetch again.
C37_MockLeavesCacheUnchanged ==
    /\ [][\A w \in Workers :
             MockDelivered(w) =>
                 /\ cache' = cache
                 /\ \A T \in Tiers : wk[w].key \notin DOMAIN cache'[T]]_vars
    /\ [](\A w \in Workers :
             \A i \in 1..(Len(wk[w].acc) - 1) :
                 (/\ wk[w].op = "batch"
                  /\ wk[w].acc[i].val.dataSource = "mock"
                  /\ Upper(wk[w].acc[i].sym) = Upper(wk[w].acc[i + 1].sym))
                 => (wk[w].acc[i + 1].gce # "hit" /\ wk[w].acc[i + 1].up # "none"))

\* C37's case: get_stock_details returned a mock for a symbol, and the next
\* call for the same symbol went to the upstream again and stored its result.
C37_Witness ==
    \E w \in Workers :
        /\ wk[w].op = "batch" /\ wk[w].pc = "done"
        /\ Len(wk[w].acc) = 2
        /\ wk[w].acc[1].sym = wk[w].acc[2].sym
        /\ wk[w].acc[1].gce = "raise" /\ wk[w].acc[1].val.dataSource = "mock"
        /\ wk[w].acc[2].gce = "fetched" /\ wk[w].acc[2].up = "ok"
        /\ DetailsKey(Upper(wk[w].acc[2].sym)) \in DOMAIN cache["realtime"]

\* C36: an entry is fresh at the moment it is written: the time at which it
\* is stored is less than ttl after the timestamp stored with it, so a read
\* with the same ttl right after the store is a hit, whatever time the fetch
\* took.
C36_FreshWhenWritten ==
    \A tier \in Tiers : \A k \in DOMAIN cache[tier] :
        cache[tier][k].stored - cache[tier][k].timestamp < TTL(tier)

\* C39: a symbol for which get_stock_details has stored a fresh realtime
\* entry is classified as a cache hit by the partition of
\* get_batch_stock_details, in whatever letter case it is passed.
C39_SameEntryAnyCase ==
    [][\A w \in Workers :
          BatchCalled(w) =>
              \A i \in 1..Len(wk'[w].req) :
                  Fresh("realtime", DetailsKey(Upper(wk'[w].req[i])), clock, REALTIME_TTL)
                  => \E j \in 1..Len(wk'[w].acc) :
                        wk'[w].acc[j].sym = wk'[w].req[i] /\ wk'[w].acc[j].gce = "hit"]_vars

\* Thread t has missed and is inside fetch_func (line 222): it has not yet
\* come to write the entry.
InFetch(t) ==
    \/ th[t].pc = "permit" /\ th[t].after = "upstream"
    \/ th[t].pc = "at225"

\* C32: there is no single-flight coalescing.  A caller that misses always
\* goes on to invoke the fetch function, whatever the other callers are
\* doing, and it is inside the fetch function without the cache lock, so a
\* second caller of the same (tier, key) can miss and fetch as well.
C32_NoSingleFlight ==
    /\ [](\A t \in Callers : InFetch(t) => lock # t)
    /\ [][\A t \in Callers :
             (/\ th[t].pc = "in215"
              /\ th'[t] # th[t]
              /\ ~Fresh(th[t].tier, th[t].key, th[t].now, TTL(th[t].tier)))
             => InFetch(t)']_vars

\* C32's case: two callers of the same (tier, key) have both missed and are
\* both inside the fetch function, and nothing is written under the key yet.
C32_Witness ==
    \E t, u \in Callers :
        /\ t # u
        /\ InFetch(t) /\ InFetch(u)
        /\ th[t].tier = th[u].tier /\ th[t].key = th[u].key
        /\ th[t].key \notin DOMAIN cache[th[t].tier]

\* C35: for each (tier, key) the timestamp stored with the entry never
\* decreases from one write to the next, also when two fetches of the key
\* overlap and the one that started first finishes last.
C35_TimestampNeverDecreases ==
    [][\A tier \in Tiers : \A k \in DOMAIN cache[tier] :
          k \in DOMAIN cache'[tier] =>
              cache'[tier][k].timestamp >= cache[tier][k].timestamp]_vars

\* C38: for any sequence of start() and stop() calls on one
\* CacheCleanupService at most one loop thread is alive at any time: start()
\* while running starts nothing, and a stop() followed by a start() never
\* leaves two loops sweeping the cache.
C38_AtMostOneLoop == Cardinality(Alive) <= 1

====
